---------------------------- MODULE Spec2Model ----------------------------
(***************************************************************************)
(* Kademlia address metric of swarm/network/kademlia/address.go:           *)
(* proximity, Address.ProxCmp, RandomAddressAt, RandomAddress, KeyRange,   *)
(* CommonBitsAddrF, CommonBitsAddr and CommonBitsAddrByte.                 *)
(*                                                                         *)
(* An Address is a sequence of AddrLen bytes (0..255).  Go's byte index i  *)
(* is index i+1 of the sequence.  Bit k of an address (k = 0 is the most   *)
(* significant bit of byte 0) lives in byte k \div 8.                      *)
(***************************************************************************)
EXTENDS Integers, Sequences, FiniteSets, TLC

\* Number of bytes of an Address in the model (len(Address) in the source,
\* where Address is common.Hash).
AddrLen == 2

AddrBits == AddrLen * 8

---------------------------------------------------------------------------
(* Go's arithmetic on byte and int *)

\* bit k (k = 0 least significant) of the byte x
BitOf(x, k) == (x \div (2 ^ k)) % 2

\* x ^ y on bytes
Xor8(x, y) ==
    LET B(k) == (BitOf(x, k) + BitOf(y, k)) % 2
    IN  B(0) + 2 * B(1) + 4 * B(2) + 8 * B(3)
             + 16 * B(4) + 32 * B(5) + 64 * B(6) + 128 * B(7)

\* x & y on bytes
And8(x, y) ==
    LET B(k) == BitOf(x, k) * BitOf(y, k)
    IN  B(0) + 2 * B(1) + 4 * B(2) + 8 * B(3)
             + 16 * B(4) + 32 * B(5) + 64 * B(6) + 128 * B(7)

\* x | y on bytes
Or8(x, y) == x + y - And8(x, y)

\* x >> s on a byte, s an unsigned shift count (a count >= 8 yields 0)
Shr8(x, s) == IF s >= 8 THEN 0 ELSE x \div (2 ^ s)

\* x << s on a byte, s an unsigned shift count (bits shifted out are lost)
Shl8(x, s) == IF s >= 8 THEN 0 ELSE (x * (2 ^ s)) % 256

\* byte(x) and uint8(x): conversion of an int to 8 bits
ToByte(x) == x % 256

\* a / b on ints, b > 0: Go truncates toward zero
GoDiv(a, b) == IF a >= 0 THEN a \div b ELSE 0 - ((0 - a) \div b)

\* a % b on ints, b > 0: the sign of the result is the sign of a
GoMod(a, b) == a - b * GoDiv(a, b)

---------------------------------------------------------------------------
(* proximity *)

\* the inner loop of proximity: the first j in j..7 with
\* (oxo >> uint8(7-j)) & 0x01 != 0; oxo is non-zero
RECURSIVE proximityBit(_, _)
proximityBit(oxo, j) ==
    IF And8(Shr8(oxo, ToByte(7 - j)), 1) # 0
    THEN j
    ELSE proximityBit(oxo, j + 1)

\* the outer loop of proximity from byte index i (0-based) on
RECURSIVE proximityFrom(_, _, _)
proximityFrom(one, other, i) ==
    IF i >= Len(one)
    THEN Len(one) * 8
    ELSE LET oxo == Xor8(one[i + 1], other[i + 1])
         IN  IF oxo # 0
             THEN i * 8 + proximityBit(oxo, 0)
             ELSE proximityFrom(one, other, i + 1)

\* a seeded bug of proximity: the differing bits are looked for in
\* one &^ other instead of one ^ other
proximityAndNot(one, other) ==
    LET RECURSIVE from(_)
        from(i) ==
            IF i >= Len(one)
            THEN Len(one) * 8
            ELSE LET oxo == And8(one[i + 1], Xor8(other[i + 1], 255))
                 IN  IF oxo # 0
                     THEN i * 8 + proximityBit(oxo, 0)
                     ELSE from(i + 1)
    IN  from(0)

\* a seeded bug of proximity: the bits of a byte are scanned from the least
\* significant one (oxo >> uint8(j))
proximityLsbFirst(one, other) ==
    LET RECURSIVE bit(_, _)
        bit(oxo, j) ==
            IF And8(Shr8(oxo, ToByte(j)), 1) # 0 THEN j ELSE bit(oxo, j + 1)
        RECURSIVE from(_)
        from(i) ==
            IF i >= Len(one)
            THEN Len(one) * 8
            ELSE LET oxo == Xor8(one[i + 1], other[i + 1])
                 IN  IF oxo # 0 THEN i * 8 + bit(oxo, 0) ELSE from(i + 1)
    IN  from(0)

proximity(one, other) == proximityFrom(one, other, 0)

---------------------------------------------------------------------------
(* Address.ProxCmp *)

RECURSIVE ProxCmpFrom(_, _, _, _)
ProxCmpFrom(target, a, b, i) ==
    IF i >= Len(target)
    THEN 0
    ELSE LET da == Xor8(a[i + 1], target[i + 1])
             db == Xor8(b[i + 1], target[i + 1])
         IN  IF da > db THEN 1
             ELSE IF da < db THEN 0 - 1
             ELSE ProxCmpFrom(target, a, b, i + 1)

\* a seeded bug of ProxCmp: the bytes are compared without the xor with target
ProxCmpNoXor(target, a, b) ==
    LET RECURSIVE from(_)
        from(i) ==
            IF i >= Len(target)
            THEN 0
            ELSE IF a[i + 1] > b[i + 1] THEN 1
                 ELSE IF a[i + 1] < b[i + 1] THEN 0 - 1
                 ELSE from(i + 1)
    IN  from(0)

\* a seeded bug of ProxCmp: the two results are exchanged
ProxCmpSwapped(target, a, b) == 0 - ProxCmpFrom(target, a, b, 0)

ProxCmp(target, a, b) == ProxCmpFrom(target, a, b, 0)

---------------------------------------------------------------------------
(* RandomAddressAt, RandomAddress *)

\* what a function yields when it indexes an Address out of range
\* (a run-time panic): no Address at all
Panic == << >>

\* for j := 0; j <= trans; j++ { transbytea |= 1 << uint8(7-j) }
RECURSIVE TransByteA(_, _)
TransByteA(trans, j) ==
    IF j > trans
    THEN 0
    ELSE Or8(Shl8(1, ToByte(7 - j)), TransByteA(trans, j + 1))

\* a seeded bug of RandomAddressAt: the bit at position prox is not flipped
RandomAddressAtNoFlip(self, prox, f) ==
    IF prox >= 0
    THEN LET pos        == GoDiv(prox, 8)
             trans      == GoMod(prox, 8)
             transbytea == TransByteA(trans, 0)
             transbyteb == Xor8(transbytea, 255)
             randbyte   == ToByte(f[1])
         IN  IF pos >= Len(self)
             THEN Panic
             ELSE [i \in 1..Len(self) |->
                     IF i - 1 < pos THEN self[i]
                     ELSE IF i - 1 = pos
                          THEN Or8(And8(self[i], transbytea),
                                   And8(randbyte, transbyteb))
                          ELSE ToByte(f[1 + (i - 1 - pos)])]
    ELSE [i \in 1..Len(self) |-> IF i = 1 THEN self[i] ELSE ToByte(f[i - 1])]

\* f holds the bytes that the successive calls of rand.Intn(255) return
RandomAddressAt(self, prox, f) ==
    IF prox >= 0
    THEN LET pos        == GoDiv(prox, 8)
             trans      == GoMod(prox, 8)
             transbytea == TransByteA(trans, 0)
             flipbyte   == ToByte(Shl8(1, ToByte(7 - trans)))
             transbyteb == Xor8(transbytea, 255)
             randbyte   == ToByte(f[1])
         IN  IF pos >= Len(self)
             THEN Panic
             ELSE [i \in 1..Len(self) |->
                     IF i - 1 < pos THEN self[i]
                     ELSE IF i - 1 = pos
                          THEN Or8(Xor8(And8(self[i], transbytea), flipbyte),
                                   And8(randbyte, transbyteb))
                          ELSE ToByte(f[1 + (i - 1 - pos)])]
    ELSE \* var pos int is 0: the loop starts at byte 1
         [i \in 1..Len(self) |-> IF i = 1 THEN self[i] ELSE ToByte(f[i - 1])]

\* Address{}: the zero value of an Address
ZeroAddress == [i \in 1..AddrLen |-> 0]

RandomAddress(f) == RandomAddressAt(ZeroAddress, 0 - 1, f)

---------------------------------------------------------------------------
(* CommonBitsAddrF, CommonBitsAddr, CommonBitsAddrByte, KeyRange *)

\* a seeded bug of CommonBitsAddrF: the statement addrpos ^= byte(0x80 >> trans)
\* is missing
CommonBitsAddrFNoFlip(self, other, f, p) ==
    LET prox0       == proximity(self, other)
        prox        == IF p <= prox0 THEN p ELSE prox0
        pos         == GoDiv(prox, 8)
        trans       == ToByte(GoMod(prox, 8))
        transbytea0 == IF p > prox THEN 127 ELSE 255
        transbytea  == Shr8(transbytea0, trans)
        transbyteb  == Xor8(transbytea, 255)
    IN  IF pos < 0 \/ pos >= Len(self)
        THEN Panic
        ELSE LET addrpos1 == And8(self[pos + 1], transbyteb)
                 addrpos3 == Or8(addrpos1, And8(transbytea, f[1]))
             IN  [i \in 1..Len(self) |->
                     IF i - 1 < pos THEN self[i]
                     ELSE IF i - 1 = pos THEN addrpos3
                     ELSE f[1 + (i - 1 - pos)]]

\* f holds the bytes that the successive calls of f() return
CommonBitsAddrF(self, other, f, p) ==
    LET prox0       == proximity(self, other)
        prox        == IF p <= prox0 THEN p ELSE prox0
        pos         == GoDiv(prox, 8)
        trans       == ToByte(GoMod(prox, 8))
        transbytea0 == IF p > prox THEN 127 ELSE 255
        transbytea  == Shr8(transbytea0, trans)
        transbyteb  == Xor8(transbytea, 255)
    IN  IF pos < 0 \/ pos >= Len(self)
        THEN Panic
        ELSE LET addrpos1 == And8(self[pos + 1], transbyteb)
                 addrpos2 == IF p > prox
                             THEN Xor8(addrpos1, Shr8(128, trans))
                             ELSE addrpos1
                 addrpos3 == Or8(addrpos2, And8(transbytea, f[1]))
             IN  [i \in 1..Len(self) |->
                     IF i - 1 < pos THEN self[i]
                     ELSE IF i - 1 = pos THEN addrpos3
                     ELSE f[1 + (i - 1 - pos)]]

\* every call of func() byte { return b } returns b
CommonBitsAddrByte(self, other, b, prox) ==
    CommonBitsAddrF(self, other, [k \in 1..Len(self) |-> b], prox)

\* f holds the bytes that the successive calls of rand.Intn(255) return
CommonBitsAddr(self, other, f, prox) ==
    CommonBitsAddrF(self, other, [k \in 1..Len(f) |-> ToByte(f[k])], prox)

\* a seeded bug of KeyRange: proxLimit is passed on without the cap by the
\* proximity of one and other
KeyRangeNoCap(one, other, proxLimit) ==
    LET start == CommonBitsAddrByte(one, other, 0, proxLimit)
        stop  == CommonBitsAddrByte(one, other, 255, proxLimit)
    IN  IF start = Panic \/ stop = Panic THEN Panic ELSE <<start, stop>>

\* <<start, stop>>, or Panic when a CommonBitsAddrByte call panics
KeyRange(one, other, proxLimit) ==
    LET prox0 == proximity(one, other)
        prox  == IF prox0 >= proxLimit THEN proxLimit ELSE prox0
        start == CommonBitsAddrByte(one, other, 0, prox)
        stop  == CommonBitsAddrByte(one, other, 255, prox)
    IN  IF start = Panic \/ stop = Panic THEN Panic ELSE <<start, stop>>

---------------------------------------------------------------------------
(* The calls: one call of one function per behaviour.  The arguments are    *)
(* chosen in the initial state, the bytes of the random source when the     *)
(* call runs.                                                               *)

VARIABLES
    pc,     \* "call" before the function runs, then "done" or "panic"
    fn,     \* the function called
    one,    \* first Address argument (one, self, target)
    other,  \* second Address argument (other, a)
    third,  \* third Address argument (b of ProxCmp)
    p,      \* the int argument (prox, proxLimit)
    f,      \* the bytes returned by the successive calls of rand.Intn or f()
    ret,    \* the int result
    addr,   \* the Address result (addr, start)
    stop    \* the second Address result of KeyRange

vars == <<pc, fn, one, other, third, p, f, ret, addr, stop>>

\* byte values of the Address arguments: 0x00, 0x01, 0x14, 0x36, 0xff
ByteVals == {0, 1, 20, 54, 255}

\* byte values of the reference Address of the three-argument calls
RefVals == {0, 54}

\* values rand.Intn(255) returns (it never returns 255): 0x55, 0xaa
RandVals == {85, 170}

\* values returned by the f() of CommonBitsAddrByte: 0x00, 0x5a, 0xff
FillVals == {0, 90, 255}

\* byte values of the argument b of ProxCmp: 0x00, 0x14, 0xff
CmpVals == {0, 20, 255}

Addrs == [1..AddrLen -> ByteVals]

CmpAddrs == [1..AddrLen -> CmpVals]

\* the Address a with bit k flipped, k = 0 the most significant bit of byte 0
FlipBit(a, k) ==
    [i \in 1..Len(a) |->
        IF i = (k \div 8) + 1 THEN Xor8(a[i], 2 ^ (7 - (k % 8))) ELSE a[i]]

\* an Address at every proximity of a: a itself and a with one bit flipped
Others(a) == {a} \cup {FlipBit(a, k) : k \in 0..(AddrBits - 1)}

RefAddrs == [1..AddrLen -> RefVals]

RandSeqs == [1..AddrLen -> RandVals]

\* prox of RandomAddressAt: unconstrained (negative) up to the full width
Proxes == (0 - 1)..AddrBits

\* p of CommonBitsAddrF and proxLimit of KeyRange
ProxLimits == {0 - 9, 0 - 8, 0 - 1} \cup (0..(AddrBits + 1))

NoArgs ==
    /\ third = << >>
    /\ p = 0
    /\ f = << >>
    /\ ret = 0
    /\ addr = << >>
    /\ stop = << >>

InitProximity ==
    /\ pc = "call" /\ fn = "proximity"
    /\ one \in Addrs /\ other \in Addrs
    /\ NoArgs

InitProxCmp ==
    /\ pc = "call" /\ fn = "ProxCmp"
    /\ one \in RefAddrs /\ other \in Addrs /\ third \in CmpAddrs
    /\ p = 0 /\ f = << >> /\ ret = 0 /\ addr = << >> /\ stop = << >>

InitRandomAddressAt ==
    /\ pc = "call" /\ fn = "RandomAddressAt"
    /\ one \in Addrs /\ other = << >> /\ third = << >>
    /\ p \in Proxes
    /\ f = << >> /\ ret = 0 /\ addr = << >> /\ stop = << >>

InitRandomAddress ==
    /\ pc = "call" /\ fn = "RandomAddress"
    /\ one = << >> /\ other = << >>
    /\ NoArgs

InitCommonBitsAddrByte ==
    /\ pc = "call" /\ fn = "CommonBitsAddrByte"
    /\ one \in RefAddrs /\ other \in Others(one) /\ third = << >>
    /\ p \in ProxLimits
    /\ \E b \in FillVals : f = <<b>>
    /\ ret = 0 /\ addr = << >> /\ stop = << >>

InitCommonBitsAddr ==
    /\ pc = "call" /\ fn = "CommonBitsAddr"
    /\ one \in RefAddrs /\ other \in Others(one) /\ third = << >>
    /\ p \in ProxLimits
    /\ f = << >> /\ ret = 0 /\ addr = << >> /\ stop = << >>

InitKeyRange ==
    /\ pc = "call" /\ fn = "KeyRange"
    /\ one \in RefAddrs /\ other \in Others(one) /\ third = << >>
    /\ p \in ProxLimits
    /\ f = << >> /\ ret = 0 /\ addr = << >> /\ stop = << >>

\* pc after a call that yields r
After(r) == IF r = Panic THEN "panic" ELSE "done"

CallProximity ==
    /\ pc = "call" /\ fn = "proximity"
    /\ ret' = proximity(one, other)
    /\ pc' = "done"
    /\ UNCHANGED <<fn, one, other, third, p, f, addr, stop>>

CallProxCmp ==
    /\ pc = "call" /\ fn = "ProxCmp"
    /\ ret' = ProxCmp(one, other, third)
    /\ pc' = "done"
    /\ UNCHANGED <<fn, one, other, third, p, f, addr, stop>>

CallRandomAddressAt ==
    /\ pc = "call" /\ fn = "RandomAddressAt"
    /\ \E r \in RandSeqs :
          /\ f' = r
          /\ addr' = RandomAddressAt(one, p, r)
          /\ pc' = After(addr')
    /\ UNCHANGED <<fn, one, other, third, p, ret, stop>>

CallRandomAddress ==
    /\ pc = "call" /\ fn = "RandomAddress"
    /\ \E r \in RandSeqs :
          /\ f' = r
          /\ addr' = RandomAddress(r)
          /\ pc' = After(addr')
    /\ UNCHANGED <<fn, one, other, third, p, ret, stop>>

CallCommonBitsAddrByte ==
    /\ pc = "call" /\ fn = "CommonBitsAddrByte"
    /\ addr' = CommonBitsAddrByte(one, other, f[1], p)
    /\ pc' = After(addr')
    /\ f' = [k \in 1..AddrLen |-> f[1]]
    /\ UNCHANGED <<fn, one, other, third, p, ret, stop>>

CallCommonBitsAddr ==
    /\ pc = "call" /\ fn = "CommonBitsAddr"
    /\ \E r \in RandSeqs :
          /\ f' = r
          /\ addr' = CommonBitsAddr(one, other, r, p)
          /\ pc' = After(addr')
    /\ UNCHANGED <<fn, one, other, third, p, ret, stop>>

CallKeyRange ==
    /\ pc = "call" /\ fn = "KeyRange"
    /\ LET r == KeyRange(one, other, p)
       IN  /\ pc' = After(r)
           /\ addr' = IF r = Panic THEN << >> ELSE r[1]
           /\ stop' = IF r = Panic THEN << >> ELSE r[2]
    /\ UNCHANGED <<fn, one, other, third, p, f, ret>>

\* proximity and ProxCmp
InitMetric == InitProximity \/ InitProxCmp

NextMetric == CallProximity \/ CallProxCmp

SpecMetric == InitMetric /\ [][NextMetric]_vars

\* RandomAddressAt and RandomAddress
InitRandom == InitRandomAddressAt \/ InitRandomAddress

NextRandom == CallRandomAddressAt \/ CallRandomAddress

SpecRandom == InitRandom /\ [][NextRandom]_vars

\* CommonBitsAddrByte, CommonBitsAddr and KeyRange
InitRange == InitCommonBitsAddrByte \/ InitCommonBitsAddr \/ InitKeyRange

NextRange == CallCommonBitsAddrByte \/ CallCommonBitsAddr \/ CallKeyRange

SpecRange == InitRange /\ [][NextRange]_vars

\* every function of the file
Init == InitMetric \/ InitRandom \/ InitRange

Next == NextMetric \/ NextRandom \/ NextRange

Spec == Init /\ [][Next]_vars

---------------------------------------------------------------------------
(* Properties *)

\* bit k of the Address a, k = 0 the most significant bit of byte 0
BitAt(a, k) == (a[(k \div 8) + 1] \div (2 ^ (7 - (k % 8)))) % 2

\* a and b have the same n leading bits
SamePrefix(a, b, n) == \A k \in 0..(n - 1) : BitAt(a, k) = BitAt(b, k)

\* a <= b as big-endian unsigned byte sequences
LeqBE(a, b) ==
    \/ a = b
    \/ \E i \in 1..Len(a) :
          /\ a[i] < b[i]
          /\ \A j \in 1..(i - 1) : a[j] = b[j]

Min(x, y) == IF x <= y THEN x ELSE y

\* bit k of the result of a CommonBitsAddrF call that fills from the bytes
\* fill, the boundary byte being byte pos (0-based)
FillBitAt(fill, pos, k) ==
    (fill[1 + ((k \div 8) - pos)] \div (2 ^ (7 - (k % 8)))) % 2

\* C1: RandomAddressAt(r, prox) with prox in [0, N*8) returns, whatever the
\* random bytes are, an address at proximity exactly prox of r: it has the
\* first prox bits of r and the bit at position prox flipped.
C1_Divergence ==
    (fn = "RandomAddressAt" /\ pc # "call" /\ p \in 0..(AddrBits - 1)) =>
        /\ pc = "done"
        /\ proximity(one, addr) = p
        /\ SamePrefix(one, addr, p)
        /\ BitAt(addr, p) # BitAt(one, p)

\* a call at a prox inside the second byte whose random bytes differ from
\* the reference after the flipped bit
C1_Witness ==
    /\ fn = "RandomAddressAt" /\ pc = "done"
    /\ p = AddrBits - 3
    /\ \E k \in (p + 1)..(AddrBits - 1) : BitAt(addr, k) # BitAt(one, k)
    /\ \E k \in (p + 1)..(AddrBits - 1) : BitAt(addr, k) = BitAt(one, k)

\* C2: proximity(a, b) is the index of the first bit in which a and b differ
\* (byte 0 first, most significant bit first), in [0, N*8) when a # b, and
\* N*8 exactly when a = b.
C2_FirstDifferingBit ==
    (fn = "proximity" /\ pc = "done") =>
        /\ ret \in 0..AddrBits
        /\ (ret = AddrBits) <=> (one = other)
        /\ SamePrefix(one, other, ret)
        /\ ret < AddrBits => BitAt(one, ret) # BitAt(other, ret)

\* two addresses that differ first inside a byte, after its first bit
C2_Witness ==
    /\ fn = "proximity" /\ pc = "done"
    /\ one # other
    /\ ret > 8 /\ ret % 8 \in 1..6

\* C3: proximity(a, b) = proximity(b, a).
C3_Symmetry ==
    (fn = "proximity" /\ pc = "done") => ret = proximity(other, one)

\* two different addresses, the first not the numerically smaller one
C3_Witness ==
    /\ fn = "proximity" /\ pc = "done"
    /\ one # other /\ ~LeqBE(one, other)
    /\ ret < AddrBits

\* the byte indexes at which a ^ target and b ^ target differ
DiffIdx(target, a, b) ==
    {i \in 1..Len(target) : Xor8(a[i], target[i]) # Xor8(b[i], target[i])}

\* C4: target.ProxCmp(a, b) is -1, 0 or 1, decided at the first byte index
\* where da = a[i] ^ target[i] and db = b[i] ^ target[i] differ: -1 if
\* da < db, 1 if da > db; it is 0 exactly when a = b.
C4_ProxCmpDecided ==
    (fn = "ProxCmp" /\ pc = "done") =>
        /\ ret \in {0 - 1, 0, 1}
        /\ (ret = 0) <=> (other = third)
        /\ (ret = 0) <=> (DiffIdx(one, other, third) = {})
        /\ \A i \in DiffIdx(one, other, third) :
              (\A j \in DiffIdx(one, other, third) : i <= j) =>
                  /\ Xor8(other[i], one[i]) < Xor8(third[i], one[i])
                        => ret = 0 - 1
                  /\ Xor8(other[i], one[i]) > Xor8(third[i], one[i])
                        => ret = 1

\* a call decided at the second byte, where a < b and yet b is the closer
C4_Witness ==
    /\ fn = "ProxCmp" /\ pc = "done"
    /\ other[1] = third[1]
    /\ other[2] < third[2]
    /\ ret = 1

\* the addresses x probed against the key range of one
Probes == Addrs \cup Others(one)

\* C5: with prox = min(proximity(one, other), proxLimit) in [0, N*8), the
\* start and stop of KeyRange(one, other, proxLimit) have the leading prox
\* bits of one, start <= stop, start is that prefix followed by 0 bits and
\* stop that prefix followed by 1 bits, and start <= x <= stop exactly when
\* x has the leading prox bits of one.
C5_RangeContainment ==
    (/\ fn = "KeyRange" /\ pc # "call"
     /\ Min(proximity(one, other), p) \in 0..(AddrBits - 1)) =>
        LET prox == Min(proximity(one, other), p)
        IN  /\ pc = "done"
            /\ SamePrefix(addr, one, prox)
            /\ SamePrefix(stop, one, prox)
            /\ LeqBE(addr, stop)
            /\ \A k \in prox..(AddrBits - 1) :
                  BitAt(addr, k) = 0 /\ BitAt(stop, k) = 1
            /\ \A x \in Probes :
                  (LeqBE(addr, x) /\ LeqBE(x, stop)) <=> SamePrefix(x, one, prox)

\* a range cut inside a byte by proxLimit, with probes inside and outside
C5_Witness ==
    /\ fn = "KeyRange" /\ pc = "done"
    /\ p < proximity(one, other)
    /\ p % 8 \in 1..7
    /\ \E x \in Probes : LeqBE(addr, x) /\ LeqBE(x, stop) /\ x # addr /\ x # stop
    /\ \E x \in Probes : ~LeqBE(addr, x)
    /\ \E x \in Probes : ~LeqBE(x, stop)

\* C6: for one # other and every proxLimit (here the ones from 0 on), every
\* address x with start <= x <= stop is strictly closer to one than to other
\* (x.ProxCmp(one, other) = -1); other itself is outside [start, stop].
C6_RangeCloserToOne ==
    (fn = "KeyRange" /\ pc = "done" /\ one # other /\ p >= 0) =>
        /\ ~(LeqBE(addr, other) /\ LeqBE(other, stop))
        /\ \A x \in Probes :
              (LeqBE(addr, x) /\ LeqBE(x, stop)) => ProxCmp(x, one, other) = 0 - 1

\* C7: for every prox or proxLimit in [0, N*8] the functions return a value
\* and index no Address out of range.
C7_NoPanic ==
    (p \in 0..AddrBits) => pc # "panic"

\* C8: for prox < 0 every byte of the result of RandomAddressAt, byte 0
\* included, comes from the random source and none from the reference: the
\* same random bytes give the same result for every reference.
C8_Unconstrained ==
    (fn = "RandomAddressAt" /\ pc = "done" /\ p < 0) =>
        \A r \in Addrs : RandomAddressAt(r, p, f) = addr

\* C9, as stated: the result of CommonBitsAddrF shares min(proximity, proxLimit)
\* leading bits with the reference, and the bit after that prefix is the
\* flipped bit of the reference exactly when proxLimit < proximity; otherwise
\* that bit comes from fillFn.
C9_FlipWhenLimitBinds ==
    (/\ fn \in {"CommonBitsAddr", "CommonBitsAddrByte"} /\ pc = "done"
     /\ Min(proximity(one, other), p) \in 0..(AddrBits - 1)) =>
        LET prox == Min(proximity(one, other), p)
        IN  /\ SamePrefix(addr, one, prox)
            /\ IF p < proximity(one, other)
               THEN BitAt(addr, prox) # BitAt(one, prox)
               ELSE BitAt(addr, prox) = FillBitAt(f, prox \div 8, prox)

\* C9, amended: the bit after the prefix is the flipped bit of the reference
\* exactly when proxLimit > proximity (the proximity, not proxLimit, is the
\* smaller one), and then every later bit comes from fillFn; when
\* proxLimit <= proximity no bit is flipped and every bit from position
\* proxLimit on comes from fillFn.
C9_FlipWhenLimitExceeds ==
    (/\ fn \in {"CommonBitsAddr", "CommonBitsAddrByte"} /\ pc # "call"
     /\ Min(proximity(one, other), p) \in 0..(AddrBits - 1)) =>
        LET prox == Min(proximity(one, other), p)
        IN  /\ pc = "done"
            /\ SamePrefix(addr, one, prox)
            /\ IF p > proximity(one, other)
               THEN /\ BitAt(addr, prox) # BitAt(one, prox)
                    /\ \A k \in (prox + 1)..(AddrBits - 1) :
                          BitAt(addr, k) = FillBitAt(f, prox \div 8, k)
               ELSE \A k \in prox..(AddrBits - 1) :
                          BitAt(addr, k) = FillBitAt(f, prox \div 8, k)

\* a call with proxLimit above the proximity whose fill byte has, at the
\* boundary bit, the bit of the reference: the result has the flipped bit
C9_Witness ==
    /\ fn = "CommonBitsAddr" /\ pc = "done"
    /\ p > proximity(one, other)
    /\ proximity(one, other) % 8 \in 1..6
    /\ FillBitAt(f, proximity(one, other) \div 8, proximity(one, other))
          = BitAt(one, proximity(one, other))
    /\ BitAt(addr, proximity(one, other)) # BitAt(one, proximity(one, other))

\* C10: ProxCmp refines the proximity order: a at a higher proximity of
\* target than b gives -1, a lower one gives 1, and
\* target.ProxCmp(a, b) = -target.ProxCmp(b, a).
C10_RefinesProximity ==
    (fn = "ProxCmp" /\ pc = "done") =>
        /\ proximity(one, other) > proximity(one, third) => ret = 0 - 1
        /\ proximity(one, other) < proximity(one, third) => ret = 1
        /\ ret = 0 - ProxCmp(one, third, other)

\* a at a higher proximity of target than b although a > b as numbers
C10_Witness ==
    /\ fn = "ProxCmp" /\ pc = "done"
    /\ proximity(one, other) > proximity(one, third)
    /\ ~LeqBE(other, third)
    /\ ret = 0 - 1

=============================================================================
